---------------------------- MODULE Spec2Model ----------------------------
(* A model of repo2markdown.py: the pattern matcher, the .repotomdrc     *)
(* parser, the file selection and the line accounting of the markdown    *)
(* builder.  Strings are sequences of one-character strings, so that     *)
(* strip, split, join, lower and the glob match are computed as the      *)
(* code computes them.  Fixed pieces of output text that the code never  *)
(* looks into (markdown markup) are single multi-character elements.     *)
EXTENDS Integers, Sequences, FiniteSets, TLC

VARIABLES
    filepath, pattern, matched,                    \* matches_pattern: arguments, result
    cfg_present, cfg_lines, cfg_pos,               \* .repotomdrc: is a file, its lines, lines read
    current_section, exclude_patterns, include_patterns,
    pc, exit_code,                                 \* position of the run, process exit code
    isdir, hasgit, git_fail,                       \* the repository root as main() finds it
    repo_tracked, all_files,                       \* git ls-files; os.walk
    tracked_files,                                 \* get_filtered_files / create_markdown local
    file_contents, file_line_ranges, current_line, \* create_markdown locals
    output_lines, written, writes                  \* assembled lines; output file text; writes

vars == << filepath, pattern, matched, cfg_present, cfg_lines, cfg_pos,
           current_section, exclude_patterns, include_patterns, pc, exit_code,
           isdir, hasgit, git_fail, repo_tracked, all_files, tracked_files,
           file_contents, file_line_ranges, current_line, output_lines,
           written, writes >>

matchVars == << filepath, pattern, matched >>
cfgVars == << cfg_present, cfg_lines, cfg_pos, current_section,
              exclude_patterns, include_patterns >>
envVars == << isdir, hasgit, git_fail, repo_tracked, all_files >>
docVars == << file_contents, file_line_ranges, current_line, output_lines,
              written, writes >>

-----------------------------------------------------------------------------
(* Python str primitives on sequences of characters                        *)

CONFIG_FILENAME == << ".", "r", "e", "p", "o", "t", "o", "m", "d", "r", "c" >>

\* The characters of the model in code point order (only the order is used).
AsciiOrder ==
    << "\t", "\n", " ", "!", "#", "*", "-", ".", "/", "?",
       "E", "I", "X", "[", "\\", "]", "_",
       "a", "b", "c", "d", "e", "f", "g", "h", "i", "j", "k", "l", "m",
       "n", "o", "p", "q", "r", "s", "t", "u", "v", "w", "x", "y", "z" >>

Ord(c) == CHOOSE i \in DOMAIN AsciiOrder : AsciiOrder[i] = c

\* str.__lt__: lexicographic by code point, a proper prefix is smaller.
StrLess(a, b) ==
    \E k \in 1..(Len(b)) :
        /\ \A i \in 1..(k - 1) : i <= Len(a) /\ a[i] = b[i]
        /\ \/ k = Len(a) + 1
           \/ k <= Len(a) /\ Ord(a[k]) < Ord(b[k])

\* sorted(S) for a set of strings.
RECURSIVE Sorted(_)
Sorted(S) ==
    IF S = {} THEN << >>
    ELSE LET m == CHOOSE x \in S : \A y \in S \ {x} : StrLess(x, y)
         IN  << m >> \o Sorted(S \ {m})

Tail2(s, i) == SubSeq(s, i, Len(s))

\* s.rstrip(chars), s.lstrip(chars), s.strip() with chars a set of characters.
RStrip(s, chars) ==
    LET k == CHOOSE k \in 0..Len(s) :
                 /\ \A i \in (k + 1)..Len(s) : s[i] \in chars
                 /\ (k = 0 \/ s[k] \notin chars)
    IN  SubSeq(s, 1, k)

LStrip(s, chars) ==
    LET k == CHOOSE k \in 1..(Len(s) + 1) :
                 /\ \A i \in 1..(k - 1) : s[i] \in chars
                 /\ (k = Len(s) + 1 \/ s[k] \notin chars)
    IN  Tail2(s, k)

Whitespace == { " ", "\t", "\n" }

Strip(s) == LStrip(RStrip(s, Whitespace), Whitespace)

StartsWith(s, p) ==
    /\ Len(p) <= Len(s)
    /\ \A i \in 1..Len(p) : s[i] = p[i]

EndsWith(s, p) ==
    /\ Len(p) <= Len(s)
    /\ \A i \in 1..Len(p) : s[Len(s) - Len(p) + i] = p[i]

\* s.replace(a, b) for single characters a and b.
Replace(s, a, b) == [i \in DOMAIN s |-> IF s[i] = a THEN b ELSE s[i]]

\* s.split(c) for a single character c: always at least one part.
RECURSIVE Split(_, _)
Split(s, c) ==
    IF \A i \in DOMAIN s : s[i] # c THEN << s >>
    ELSE LET i == CHOOSE i \in DOMAIN s :
                      s[i] = c /\ \A j \in 1..(i - 1) : s[j] # c
         IN  << SubSeq(s, 1, i - 1) >> \o Split(Tail2(s, i + 1), c)

\* pattern.split('**'): non-overlapping occurrences, found left to right.
RECURSIVE SplitStarStar(_)
SplitStarStar(s) ==
    LET At(i) == i < Len(s) /\ s[i] = "*" /\ s[i + 1] = "*"
    IN  IF \A i \in DOMAIN s : ~At(i) THEN << s >>
        ELSE LET i == CHOOSE i \in DOMAIN s : At(i) /\ \A j \in 1..(i - 1) : ~At(j)
             IN  << SubSeq(s, 1, i - 1) >> \o SplitStarStar(Tail2(s, i + 2))

\* sep.join(parts) for a sequence sep of characters.
RECURSIVE Join(_, _)
Join(parts, sep) ==
    IF Len(parts) = 0 THEN << >>
    ELSE IF Len(parts) = 1 THEN parts[1]
    ELSE parts[1] \o sep \o Join(Tail(parts), sep)

\* os.path.basename on a slash-separated path.
Basename(s) == LET parts == Split(s, "/") IN parts[Len(parts)]

-----------------------------------------------------------------------------
(* fnmatch.fnmatch on POSIX (normcase is the identity): the pattern is    *)
(* translated as fnmatch.translate does and must match the whole name.    *)
(* `*` is `.*` and crosses `/`; `?` is one character; `[seq]` is a        *)
(* character class, `[!seq]` its complement; a `[` without a closing `]`  *)
(* is a literal.  Ranges (`a-z`) are not among the model's patterns.      *)

\* The index of the `]` that closes the class opened at p[j], or 0.
ClassEnd(p, j) ==
    LET n  == Len(p)
        k1 == IF j + 1 <= n /\ p[j + 1] = "!" THEN j + 2 ELSE j + 1
        k2 == IF k1 <= n /\ p[k1] = "]" THEN k1 + 1 ELSE k1
    IN  IF \E k \in k2..n : p[k] = "]"
        THEN CHOOSE k \in k2..n : p[k] = "]" /\ \A m \in k2..(k - 1) : p[m] # "]"
        ELSE 0

InClass(c, stuff) ==
    IF stuff[1] = "!"
    THEN \A i \in 2..Len(stuff) : stuff[i] # c
    ELSE \E i \in 1..Len(stuff) : stuff[i] = c

RECURSIVE GlobFrom(_, _, _, _)
GlobFrom(s, i, p, j) ==
    IF j > Len(p) THEN i > Len(s)
    ELSE IF p[j] = "*"
         THEN \E k \in i..(Len(s) + 1) : GlobFrom(s, k, p, j + 1)
    ELSE IF p[j] = "?"
         THEN i <= Len(s) /\ GlobFrom(s, i + 1, p, j + 1)
    ELSE IF p[j] = "[" /\ ClassEnd(p, j) # 0
         THEN /\ i <= Len(s)
              /\ InClass(s[i], SubSeq(p, j + 1, ClassEnd(p, j) - 1))
              /\ GlobFrom(s, i + 1, p, ClassEnd(p, j) + 1)
    ELSE i <= Len(s) /\ s[i] = p[j] /\ GlobFrom(s, i + 1, p, j + 1)

fnmatch(name, pat) == GlobFrom(name, 1, pat, 1)

-----------------------------------------------------------------------------
(* matches_pattern                                                          *)


\* A faulty variant of MatchPlain: the match at any directory level (lines
\* 139-143) is left out.
MatchPlainNoDepth(fp, pat0) ==
    LET pat == IF EndsWith(pat0, << "/" >>)
               THEN RStrip(pat0, { "/" }) \o << "/", "*" >>
               ELSE pat0
    IN  \/ fnmatch(fp, pat)
        \/ fnmatch(Basename(fp), pat)

\* Lines 125-145: the pattern without a handled `**`.
MatchPlain(fp, pat0) ==
    LET pat        == IF EndsWith(pat0, << "/" >>)
                      THEN RStrip(pat0, { "/" }) \o << "/", "*" >>
                      ELSE pat0
        path_parts == Split(fp, "/")
    IN  \/ fnmatch(fp, pat)
        \/ fnmatch(Basename(fp), pat)
        \/ \E i \in 1..Len(path_parts) :
               fnmatch(Join(Tail2(path_parts, i), << "/" >>), pat)


\* A faulty variant of MatchStarStar: the test of the prefix (lines 109-111)
\* is left out.
MatchStarStarNoPrefixCheck(fp, parts) ==
    LET suffix     == LStrip(parts[2], { "/" })
        prefix     == RStrip(parts[1], { "/" })
        path_parts == Split(fp, "/")
    IN  IF suffix # << >>
        THEN \E i \in 1..Len(path_parts) :
                 fnmatch(Join(Tail2(path_parts, i), << "/" >>), suffix)
        ELSE \/ StartsWith(fp, RStrip(prefix, { "*" }))
             \/ fnmatch(fp, prefix \o << "*" >>)

\* Lines 99-123: the pattern splits at `**` in exactly two parts.
MatchStarStar(fp, parts) ==
    LET prefix     == RStrip(parts[1], { "/" })
        suffix     == LStrip(parts[2], { "/" })
        path_parts == Split(fp, "/")
    IN  IF /\ prefix # << >>
           /\ ~StartsWith(fp, RStrip(prefix, { "*" }))
           /\ ~fnmatch(path_parts[1], RStrip(prefix, { "/" }))
        THEN FALSE
        ELSE IF suffix # << >>
        THEN \E i \in 1..Len(path_parts) :
                 LET remaining == Join(Tail2(path_parts, i), << "/" >>)
                 IN  \/ fnmatch(remaining, suffix)
                     \/ fnmatch(remaining, LStrip(suffix, { "/" }))
        ELSE \/ StartsWith(fp, RStrip(prefix, { "*" }))
             \/ fnmatch(fp, prefix \o << "*" >>)

matches_pattern(filepath0, pattern0) ==
    LET fp    == Replace(filepath0, "\\", "/")
        pat   == Replace(pattern0, "\\", "/")
        parts == SplitStarStar(pat)
    IN  IF Len(parts) >= 2 /\ Len(parts) = 2
        THEN MatchStarStar(fp, parts)
        ELSE MatchPlain(fp, pat)

matches_any_pattern(fp, patterns) ==
    \E i \in 1..Len(patterns) : matches_pattern(fp, patterns[i])

-----------------------------------------------------------------------------
(* Inputs of the pattern matcher                                            *)

MaxPathDepth == 3
MaxPatSegs == 2

SeqsUpTo(S, n) == UNION { [1..k -> S] : k \in 1..n }

seg_docs == << "d", "o", "c", "s" >>
seg_src == << "s", "r", "c" >>
seg_a_md == << "a", ".", "m", "d" >>
seg_x_js == << "x", ".", "j", "s" >>
pseg_starstar == << "*", "*" >>
pseg_star_md == << "*", ".", "m", "d" >>
pseg_star_js == << "*", ".", "j", "s" >>
pseg_q_md == << "?", ".", "m", "d" >>

path_docs_a_md == << "d", "o", "c", "s", "/", "a", ".", "m", "d" >>
path_docsx_a_md == << "d", "o", "c", "s", "x", "/", "a", ".", "m", "d" >>
path_other_src_x_js == << "o", "t", "h", "e", "r", "/", "s", "r", "c", "/", "x", ".", "j", "s" >>
path_deep_secrets == << "c", "o", "n", "f", "i", "g", "/", "d", "e", "e", "p", "/", "n", "e", "s", "t", "e", "d", "/", "s", "e", "c", "r", "e", "t", "s", ".", "j", "s", "o", "n" >>
path_secrets == << "s", "e", "c", "r", "e", "t", "s", ".", "j", "s", "o", "n" >>
path_a_b_x_md == << "a", "/", "b", "/", "x", ".", "m", "d" >>
path_a_c_x_md == << "a", "/", "c", "/", "x", ".", "m", "d" >>
path_backslash == << "s", "r", "c", "\\", "x", ".", "j", "s" >>

pat_docs_ss_md == << "d", "o", "c", "s", "/", "*", "*", "/", "*", ".", "m", "d" >>
pat_secrets == << "s", "e", "c", "r", "e", "t", "s", ".", "j", "s", "o", "n" >>
pat_src_js == << "s", "r", "c", "/", "*", ".", "j", "s" >>
pat_a_b_ss_md == << "a", "/", "b", "/", "*", "*", "/", "*", ".", "m", "d" >>
pat_dstar_ss_md == << "d", "*", "/", "*", "*", "/", "*", ".", "m", "d" >>
pat_class_md == << "[", "a", "x", "]", ".", "m", "d" >>
pat_nclass_md == << "[", "!", "a", "]", ".", "m", "d" >>
pat_open_class == << "[", "a", ".", "m", "d" >>
pat_two_ss == << "*", "*", "/", "s", "r", "c", "/", "*", "*" >>
pat_backslash == << "s", "r", "c", "\\", "*", ".", "j", "s" >>
pat_docs_ss == << "d", "o", "c", "s", "/", "*", "*" >>
pat_docs_ss_slash == << "d", "o", "c", "s", "/", "*", "*", "/" >>

PathSegs == { seg_docs, seg_src, seg_a_md, seg_x_js }

PatSegs == { pseg_starstar, seg_docs, seg_src, pseg_star_md, pseg_star_js, pseg_q_md }

ExamplePaths ==
    { path_docsx_a_md, path_other_src_x_js, path_deep_secrets, path_secrets,
      path_a_b_x_md, path_a_c_x_md, path_backslash }

ExamplePatterns ==
    { pat_docs_ss_md, pat_secrets, pat_src_js, pat_a_b_ss_md, pat_dstar_ss_md,
      pat_class_md, pat_nclass_md, pat_open_class, pat_two_ss, pat_backslash,
      pat_docs_ss, pat_docs_ss_slash }

Paths ==
    { Join(segs, << "/" >>) : segs \in SeqsUpTo(PathSegs, MaxPathDepth) }
        \cup ExamplePaths

Patterns ==
    LET base == { Join(segs, << "/" >>) : segs \in SeqsUpTo(PatSegs, MaxPatSegs) }
    IN  base \cup { p \o << "/" >> : p \in base } \cup ExamplePatterns

-----------------------------------------------------------------------------
(* Values of the variables a specification does not use                     *)

NoContent == [binary |-> TRUE, text |-> << >>]

IdleMatch == filepath = << >> /\ pattern = << >> /\ matched = FALSE

IdleCfg ==
    /\ cfg_present = FALSE /\ cfg_lines = << >> /\ cfg_pos = 0
    /\ current_section = "None"
    /\ exclude_patterns = << >> /\ include_patterns = << >>

IdleEnv ==
    /\ isdir = TRUE /\ hasgit = TRUE /\ git_fail = 0
    /\ repo_tracked = {} /\ all_files = {}

IdleDoc ==
    /\ file_contents = << >> /\ file_line_ranges = << >> /\ current_line = 0
    /\ output_lines = << >> /\ written = << >> /\ writes = 0

-----------------------------------------------------------------------------
(* The pattern matcher applied to one (path, pattern) pair                  *)

InitMatch ==
    /\ filepath \in Paths
    /\ pattern \in Patterns
    /\ matched = FALSE
    /\ pc = "matches_pattern"
    /\ exit_code = 0 /\ tracked_files = {}
    /\ IdleCfg /\ IdleEnv /\ IdleDoc

MatchesPattern ==
    /\ pc = "matches_pattern"
    /\ matched' = matches_pattern(filepath, pattern)
    /\ pc' = "matched"
    /\ UNCHANGED << filepath, pattern, exit_code, tracked_files,
                    cfgVars, envVars, docVars >>

NextMatch == MatchesPattern

SpecMatch == InitMatch /\ [][NextMatch]_vars

-----------------------------------------------------------------------------
(* Properties of matches_pattern                                            *)

\* The arguments as matches_pattern normalizes them.
NormPath == Replace(filepath, "\\", "/")
NormPattern == Replace(pattern, "\\", "/")

\* The places where `**` starts in the pattern.
StarStarAt == { i \in 1..(Len(NormPattern) - 1) :
                  NormPattern[i] = "*" /\ NormPattern[i + 1] = "*" }

OneStarStar == Cardinality(StarStarAt) = 1

\* What stands before and after the single `**`, adjacent slashes trimmed.
PrefixOfPattern ==
    LET i == CHOOSE i \in StarStarAt : TRUE
    IN  RStrip(SubSeq(NormPattern, 1, i - 1), { "/" })

SuffixOfPattern ==
    LET i == CHOOSE i \in StarStarAt : TRUE
    IN  LStrip(Tail2(NormPattern, i + 2), { "/" })

\* The path with a whole number of leading segments dropped: the path itself
\* and what follows each of its slashes.
PathTails ==
    { NormPath } \cup
    { Tail2(NormPath, i + 1) : i \in { j \in DOMAIN NormPath : NormPath[j] = "/" } }

FirstSegment ==
    IF \E i \in DOMAIN NormPath : NormPath[i] = "/"
    THEN SubSeq(NormPath, 1,
                (CHOOSE i \in DOMAIN NormPath :
                     NormPath[i] = "/" /\ \A j \in 1..(i - 1) : NormPath[j] # "/") - 1)
    ELSE NormPath

LastSegment ==
    CHOOSE t \in PathTails : \A i \in DOMAIN t : t[i] # "/"

SomeTailMatches(pat) == \E t \in PathTails : fnmatch(t, pat)

\* C7 as stated: only the first segment decides whether the prefix admits
\* the path, by a glob match or by starting with the wildcard-stripped prefix.
C7_FirstSegmentDecides ==
    (pc = "matched" /\ OneStarStar /\ SuffixOfPattern # << >>) =>
        (matched <=>
            /\ \/ PrefixOfPattern = << >>
               \/ fnmatch(FirstSegment, PrefixOfPattern)
               \/ StartsWith(FirstSegment, RStrip(PrefixOfPattern, { "*" }))
            /\ SomeTailMatches(SuffixOfPattern))

\* C7 (amended): for a pattern with exactly one `**` and a non-empty suffix,
\* matches_pattern is true exactly when the prefix is empty, or the whole path
\* starts with the prefix stripped of trailing `*`, or the first segment
\* glob-matches the prefix, and some tail of the path's segments (from the
\* whole path down to the last segment) glob-matches the suffix.
C7_StarStarSuffix ==
    (pc = "matched" /\ OneStarStar /\ SuffixOfPattern # << >>) =>
        (matched <=>
            /\ \/ PrefixOfPattern = << >>
               \/ fnmatch(FirstSegment, PrefixOfPattern)
               \/ StartsWith(NormPath, RStrip(PrefixOfPattern, { "*" }))
            /\ SomeTailMatches(SuffixOfPattern))

\* `docs/**/*.md` has matched `docs/a.md`.
C7_Witness ==
    /\ pc = "matched" /\ matched
    /\ pattern = pat_docs_ss_md /\ filepath = path_docs_a_md

\* C8: a pattern without `**` that does not end in `/` matches whenever it
\* glob-matches the whole path, the basename or the path with a whole number
\* of leading segments dropped; `secrets.json` matches at every depth and
\* `src/*.js` matches `other/src/x.js`.
C8_DepthFallback ==
    (pc = "matched" /\ StarStarAt = {} /\ ~EndsWith(NormPattern, << "/" >>)) =>
        /\ fnmatch(NormPath, NormPattern) => matched
        /\ fnmatch(LastSegment, NormPattern) => matched
        /\ SomeTailMatches(NormPattern) => matched
        /\ (pattern = pat_secrets /\ filepath \in { path_secrets, path_deep_secrets })
               => matched
        /\ (pattern = pat_src_js /\ filepath = path_other_src_x_js) => matched

\* `src/*.js` has matched `other/src/x.js`, which neither the whole path
\* nor the basename matches.
C8_Witness ==
    /\ pc = "matched" /\ matched
    /\ pattern = pat_src_js /\ filepath = path_other_src_x_js
    /\ ~fnmatch(NormPath, NormPattern) /\ ~fnmatch(LastSegment, NormPattern)

-----------------------------------------------------------------------------
(* parse_config: one step per line of .repotomdrc                           *)

UpperLetters ==
    << "A", "B", "C", "D", "E", "F", "G", "H", "I", "J", "K", "L", "M",
       "N", "O", "P", "Q", "R", "S", "T", "U", "V", "W", "X", "Y", "Z" >>

LowerLetters ==
    << "a", "b", "c", "d", "e", "f", "g", "h", "i", "j", "k", "l", "m",
       "n", "o", "p", "q", "r", "s", "t", "u", "v", "w", "x", "y", "z" >>

\* str.lower() on the characters of the model.
Lower(s) ==
    [i \in DOMAIN s |->
        IF \E k \in DOMAIN UpperLetters : UpperLetters[k] = s[i]
        THEN LowerLetters[CHOOSE k \in DOMAIN UpperLetters : UpperLetters[k] = s[i]]
        ELSE s[i]]

hdr_exclude == << "[", "e", "x", "c", "l", "u", "d", "e", "]" >>
hdr_include == << "[", "i", "n", "c", "l", "u", "d", "e", "]" >>


\* A faulty variant of ConfigStep: the headers are compared without lower().
ConfigStepCaseSensitive(section, excl, incl, raw) ==
    LET line == Strip(raw)
    IN  IF line = << >> \/ line[1] = "#" THEN << section, excl, incl >>
        ELSE IF line = hdr_exclude THEN << "exclude", excl, incl >>
        ELSE IF line = hdr_include THEN << "include", excl, incl >>
        ELSE IF section = "exclude" THEN << section, Append(excl, line), incl >>
        ELSE IF section = "include" THEN << section, excl, Append(incl, line) >>
        ELSE << section, excl, incl >>

\* The body of the loop of lines 63-82 on one line of the file: the new
\* (current_section, exclude_patterns, include_patterns).
ConfigStep(section, excl, incl, raw) ==
    LET line == Strip(raw)
    IN  IF line = << >> \/ line[1] = "#" THEN << section, excl, incl >>
        ELSE IF Lower(line) = hdr_exclude THEN << "exclude", excl, incl >>
        ELSE IF Lower(line) = hdr_include THEN << "include", excl, incl >>
        ELSE IF section = "exclude" THEN << section, Append(excl, line), incl >>
        ELSE IF section = "include" THEN << section, excl, Append(incl, line) >>
        ELSE << section, excl, incl >>

\* Lines 56-57: there is no .repotomdrc file.
ConfigAbsent ==
    /\ pc = "parse_config"
    /\ ~cfg_present
    /\ pc' = "apply_exclusions"
    /\ UNCHANGED << matchVars, cfgVars, exit_code, envVars, tracked_files, docVars >>

\* Lines 63-82: the next line of the file.
ReadConfigLine ==
    /\ pc = "parse_config"
    /\ cfg_present
    /\ cfg_pos < Len(cfg_lines)
    /\ LET r == ConfigStep(current_section, exclude_patterns, include_patterns,
                           cfg_lines[cfg_pos + 1])
       IN  /\ current_section' = r[1]
           /\ exclude_patterns' = r[2]
           /\ include_patterns' = r[3]
    /\ cfg_pos' = cfg_pos + 1
    /\ UNCHANGED << matchVars, cfg_present, cfg_lines, pc, exit_code, envVars,
                    tracked_files, docVars >>

\* Line 86: the file is read to its end.
ConfigDone ==
    /\ pc = "parse_config"
    /\ cfg_present
    /\ cfg_pos = Len(cfg_lines)
    /\ pc' = "apply_exclusions"
    /\ UNCHANGED << matchVars, cfgVars, exit_code, envVars, tracked_files, docVars >>

MaxCfgLines == 3

line_blank == << " ", "\n" >>
line_comment == << "#", " ", "*", ".", "j", "s", "\n" >>
line_exclude == << "[", "e", "x", "c", "l", "u", "d", "e", "]", "\n" >>
line_EXCLUDE == << "\t", "[", "E", "X", "C", "L", "U", "D", "E", "]", " ", "\n" >>
line_Include == << "[", "I", "n", "c", "l", "u", "d", "e", "]", "\n" >>
line_star_md == << " ", "*", ".", "m", "d", " ", "\n" >>
line_src_dir == << "s", "r", "c", "/", "\n" >>

CfgLineSamples ==
    { line_blank, line_comment, line_exclude, line_EXCLUDE, line_Include,
      line_star_md, line_src_dir }

InitConfig ==
    /\ cfg_present \in BOOLEAN
    /\ cfg_lines \in SeqsUpTo(CfgLineSamples, MaxCfgLines) \cup { << >> }
    /\ cfg_present = FALSE => cfg_lines = << >>
    /\ cfg_pos = 0
    /\ current_section = "None"
    /\ exclude_patterns = << >> /\ include_patterns = << >>
    /\ pc = "parse_config"
    /\ exit_code = 0 /\ tracked_files = {}
    /\ IdleMatch /\ IdleEnv /\ IdleDoc

NextConfig == ConfigAbsent \/ ReadConfigLine \/ ConfigDone

SpecConfig == InitConfig /\ [][NextConfig]_vars

-----------------------------------------------------------------------------
(* Properties of parse_config                                               *)

\* Line i of the file without its leading and trailing whitespace.
Trimmed(i) ==
    LET l == cfg_lines[i]
        black == { k \in DOMAIN l : l[k] \notin Whitespace }
    IN  IF black = {} THEN << >>
        ELSE SubSeq(l, CHOOSE a \in black : \A k \in black : a <= k,
                       CHOOSE b \in black : \A k \in black : k <= b)

\* Equal up to the case of letters.
SameIgnoringCase(s, t) ==
    /\ Len(s) = Len(t)
    /\ \A i \in DOMAIN s :
           \/ s[i] = t[i]
           \/ \E k \in DOMAIN UpperLetters :
                  { s[i], t[i] } = { UpperLetters[k], LowerLetters[k] }

HeaderOf(i) ==
    IF SameIgnoringCase(Trimmed(i), hdr_exclude) THEN "exclude"
    ELSE IF SameIgnoringCase(Trimmed(i), hdr_include) THEN "include"
    ELSE "None"

IsPatternLine(i) ==
    /\ Trimmed(i) # << >>
    /\ Trimmed(i)[1] # "#"
    /\ HeaderOf(i) = "None"

\* The section of the most recent header line before line i.
SectionAt(i) ==
    LET hs == { j \in 1..(i - 1) : HeaderOf(j) # "None" }
    IN  IF hs = {} THEN "None"
        ELSE HeaderOf(CHOOSE j \in hs : \A k \in hs : k <= j)

\* The pattern lines of section sec among the lines read, in file order.
ExpectedList(sec) ==
    LET idx == { i \in 1..cfg_pos : IsPatternLine(i) /\ SectionAt(i) = sec }
    IN  [k \in 1..Cardinality(idx) |->
            Trimmed(CHOOSE i \in idx : Cardinality({ j \in idx : j <= i }) = k)]

\* C6: after any number of lines read, each list holds exactly the trimmed
\* lines that are not blank, not comments and not headers and whose most
\* recent preceding header (compared case-insensitively) names that list, in
\* file order with duplicates kept; lines before the first header, blank
\* lines, comment lines and header lines are in neither list.
C6_SectionLists ==
    (pc \in { "parse_config", "apply_exclusions" } /\ cfg_present) =>
        /\ exclude_patterns = ExpectedList("exclude")
        /\ include_patterns = ExpectedList("include")
        /\ Len(exclude_patterns) + Len(include_patterns)
               = Cardinality({ i \in 1..cfg_pos :
                                 IsPatternLine(i) /\ SectionAt(i) # "None" })

\* A pattern line before any header was dropped, an upper-case header opened
\* the exclude section and the same pattern line was then kept, trimmed.
C6_Witness ==
    /\ pc = "apply_exclusions"
    /\ cfg_lines = << line_star_md, line_EXCLUDE, line_star_md >>
    /\ exclude_patterns = << pseg_star_md >>
    /\ include_patterns = << >>

-----------------------------------------------------------------------------
(* main and get_filtered_files                                              *)

\* sys.exit(1)
Exit1 == pc' = "exit" /\ exit_code' = 1

\* Lines 467-469: the repository path is not a directory.
MainNotDirectory ==
    /\ pc = "main"
    /\ ~isdir
    /\ Exit1
    /\ UNCHANGED << matchVars, cfgVars, envVars, tracked_files, docVars >>

\* Lines 472-475: it has no .git directory.
MainNotGitRepo ==
    /\ pc = "main"
    /\ isdir /\ ~hasgit
    /\ Exit1
    /\ UNCHANGED << matchVars, cfgVars, envVars, tracked_files, docVars >>

\* Line 477 and 299-303: create_markdown is called and calls get_filtered_files.
MainCreateMarkdown ==
    /\ pc = "main"
    /\ isdir /\ hasgit
    /\ pc' = "get_tracked_files"
    /\ UNCHANGED << matchVars, cfgVars, exit_code, envVars, tracked_files, docVars >>

\* Lines 164-166: git ls-files fails at the first call.
GetTrackedFilesFails ==
    /\ pc = "get_tracked_files"
    /\ git_fail = 1
    /\ Exit1
    /\ UNCHANGED << matchVars, cfgVars, envVars, tracked_files, docVars >>

\* Lines 197 and 156-163: the set of tracked files.
GetTrackedFiles ==
    /\ pc = "get_tracked_files"
    /\ git_fail # 1
    /\ tracked_files' = repo_tracked
    /\ pc' = "parse_config"
    /\ UNCHANGED << matchVars, cfgVars, exit_code, envVars, docVars >>


\* A faulty variant of ApplyExclusions: the filter keeps the matching paths.
ApplyExclusionsInverted ==
    /\ pc = "apply_exclusions"
    /\ tracked_files' =
           IF exclude_patterns # << >>
           THEN { f \in tracked_files : matches_any_pattern(f, exclude_patterns) }
           ELSE tracked_files
    /\ pc' = "apply_inclusions"
    /\ UNCHANGED << matchVars, cfgVars, exit_code, envVars, docVars >>

\* Lines 211-216.
ApplyExclusions ==
    /\ pc = "apply_exclusions"
    /\ tracked_files' =
           IF exclude_patterns # << >>
           THEN { f \in tracked_files : ~matches_any_pattern(f, exclude_patterns) }
           ELSE tracked_files
    /\ pc' = "apply_inclusions"
    /\ UNCHANGED << matchVars, cfgVars, exit_code, envVars, docVars >>

\* Line 221: git ls-files fails at the second call, made for the inclusions.
ApplyInclusionsGitFails ==
    /\ pc = "apply_inclusions"
    /\ include_patterns # << >>
    /\ git_fail = 2
    /\ Exit1
    /\ UNCHANGED << matchVars, cfgVars, envVars, tracked_files, docVars >>


\* A faulty variant of ApplyInclusions: the candidates are all the files on
\* disk, the tracked ones too.
ApplyInclusionsFromAllFiles ==
    /\ pc = "apply_inclusions"
    /\ include_patterns # << >> => git_fail # 2
    /\ tracked_files' =
           IF include_patterns # << >>
           THEN tracked_files \cup
                    { f \in all_files : matches_any_pattern(f, include_patterns) }
           ELSE tracked_files
    /\ pc' = "discard_config"
    /\ UNCHANGED << matchVars, cfgVars, exit_code, envVars, docVars >>

\* Lines 219-228.
ApplyInclusions ==
    /\ pc = "apply_inclusions"
    /\ include_patterns # << >> => git_fail # 2
    /\ tracked_files' =
           IF include_patterns # << >>
           THEN LET gitignored_files == all_files \ repo_tracked
                    files_to_add ==
                        { f \in gitignored_files :
                            matches_any_pattern(f, include_patterns) }
                IN  tracked_files \cup files_to_add
           ELSE tracked_files
    /\ pc' = "discard_config"
    /\ UNCHANGED << matchVars, cfgVars, exit_code, envVars, docVars >>


\* A faulty variant of DiscardConfig: the set is returned as it is.
DiscardConfigSkipped ==
    /\ pc = "discard_config"
    /\ pc' = "check_empty"
    /\ UNCHANGED << matchVars, cfgVars, exit_code, envVars, tracked_files, docVars >>

\* Lines 231-233: the config file itself is dropped; the set is returned.
DiscardConfig ==
    /\ pc = "discard_config"
    /\ tracked_files' = tracked_files \ { CONFIG_FILENAME }
    /\ pc' = "check_empty"
    /\ UNCHANGED << matchVars, cfgVars, exit_code, envVars, docVars >>

-----------------------------------------------------------------------------
(* Inputs of get_filtered_files                                             *)

MaxRules == 1

path_a_md == << "a", ".", "m", "d" >>
path_src_x_js == << "s", "r", "c", "/", "x", ".", "j", "s" >>
pat_src_dir == << "s", "r", "c", "/" >>
pat_docs_dir == << "d", "o", "c", "s", "/" >>
pat_star == << "*" >>

RepoPaths == { CONFIG_FILENAME, path_a_md, path_docs_a_md, path_src_x_js }

RulePatterns == { pat_star, pat_src_dir, pat_docs_dir }

RuleLists == SeqsUpTo(RulePatterns, MaxRules) \cup { << >> }

\* A rules file with the given exclude and include rules, one per line.
RulesFile(excl, incl) ==
    LET AsLines(rules) == [i \in DOMAIN rules |-> rules[i] \o << "\n" >>]
    IN  (IF excl = << >> THEN << >> ELSE << line_exclude >> \o AsLines(excl))
        \o (IF incl = << >> THEN << >> ELSE << line_Include >> \o AsLines(incl))

InitSelect ==
    /\ isdir = TRUE /\ hasgit = TRUE /\ git_fail = 0
    /\ repo_tracked \in SUBSET RepoPaths
    /\ all_files \in SUBSET RepoPaths
    /\ cfg_present = (CONFIG_FILENAME \in all_files)
    /\ \E excl \in RuleLists, incl \in RuleLists :
           cfg_lines = IF cfg_present THEN RulesFile(excl, incl) ELSE << >>
    /\ cfg_pos = 0
    /\ current_section = "None"
    /\ exclude_patterns = << >> /\ include_patterns = << >>
    /\ tracked_files = {}
    /\ pc = "get_tracked_files"
    /\ exit_code = 0
    /\ IdleMatch /\ IdleDoc

NextSelect ==
    \/ GetTrackedFiles
    \/ ConfigAbsent \/ ReadConfigLine \/ ConfigDone
    \/ ApplyExclusions \/ ApplyInclusions \/ DiscardConfig

SpecSelect == InitSelect /\ [][NextSelect]_vars

-----------------------------------------------------------------------------
(* Properties of get_filtered_files, stated where it returns                *)

Returned == pc = "check_empty"

Excluded(f) == matches_any_pattern(f, exclude_patterns)
Included(f) == matches_any_pattern(f, include_patterns)

Untracked == all_files \ repo_tracked

\* The paths the rules are applied to.
Candidates == repo_tracked \cup all_files

\* The example of the selection precedence: tracked = {A, B}, the exclude
\* list matches only B, the include list matches only C, which is on disk
\* and untracked.
PrecedenceCase(A, B, C) ==
    /\ A # B /\ repo_tracked = { A, B }
    /\ C \in Untracked
    /\ { f \in Candidates : Excluded(f) } = { B }
    /\ { f \in Candidates : Included(f) } = { C }

\* C3 as stated: in the precedence case the result is exactly {A, C}, and
\* every path of the result is tracked or an untracked on-disk path matching
\* an include pattern.
C3_AsStated ==
    Returned =>
        /\ \A A, B, C \in RepoPaths :
               PrecedenceCase(A, B, C) => tracked_files = { A, C }
        /\ \A f \in tracked_files :
               f \in repo_tracked \/ (f \in Untracked /\ Included(f))

\* C3 (amended): the rules are applied in a fixed order: start from the
\* tracked set, remove every tracked path matching any exclude pattern, add
\* every untracked on-disk path matching any include pattern, then remove
\* `.repotomdrc`.  In the precedence case the result is {A, C} without
\* `.repotomdrc`, and every path of the result is tracked or an untracked
\* on-disk path matching an include pattern.
C3_SelectionOrder ==
    Returned =>
        /\ tracked_files =
               (({ f \in repo_tracked : ~Excluded(f) }
                    \cup { f \in Untracked : Included(f) })
                \ { CONFIG_FILENAME })
        /\ \A A, B, C \in RepoPaths :
               PrecedenceCase(A, B, C) =>
                   tracked_files = { A, C } \ { CONFIG_FILENAME }
        /\ \A f \in tracked_files :
               f \in repo_tracked \/ (f \in Untracked /\ Included(f))

\* The precedence case with A = a.md, B = src/x.js, C = docs/a.md.
C3_Witness ==
    /\ Returned
    /\ PrecedenceCase(path_a_md, path_src_x_js, path_docs_a_md)
    /\ tracked_files = { path_a_md, path_docs_a_md }

\* C4: `.repotomdrc` is never in the returned set, also when it is tracked
\* and when it matches an include pattern.
C4_ConfigAbsent ==
    Returned => CONFIG_FILENAME \notin tracked_files

\* `.repotomdrc` is tracked, is not excluded and matches an include pattern.
C4_Witness ==
    /\ Returned
    /\ CONFIG_FILENAME \in repo_tracked
    /\ ~Excluded(CONFIG_FILENAME)
    /\ Included(CONFIG_FILENAME)

-----------------------------------------------------------------------------
(* create_markdown.  The backquote and the non-ASCII glyphs of the markup   *)
(* are written with other characters: a code fence is "~~~", the quote     *)
(* around a path is "'", the icons and tree connectors are ASCII.          *)

\* Path(filepath).suffix: from the last dot of the final component, when that
\* dot is neither its first nor its last character.
Suffix(fp) ==
    LET name == Basename(fp)
        dots == { i \in DOMAIN name : name[i] = "." }
        i    == IF dots = {} THEN 0 ELSE CHOOSE d \in dots : \A e \in dots : e <= d
    IN  IF 1 < i /\ i < Len(name) THEN Tail2(name, i) ELSE << >>

\* Lines 381, 432: Path(filepath).suffix.lstrip('.') or 'txt'
Ext(fp) ==
    LET e == LStrip(Suffix(fp), { "." })
    IN  IF e = << >> THEN << "t", "x", "t" >> ELSE e

\* Lines 423, 433.
Anchor(fp) == Lower(Replace(Replace(Replace(fp, "/", "-"), ".", "-"), "_", "-"))


\* A faulty variant of ContentLines: the newlines that end the text are
\* not stripped before the split.
ContentLinesNoRstrip(content) ==
    IF content.binary THEN 1 ELSE Len(Split(content.text, "\n"))

\* Lines 383-390: the number of content lines and the type of a file.
ContentLines(content) ==
    IF content.binary THEN 1
    ELSE Len(Split(RStrip(content.text, { "\n" }), "\n"))

FileType(content) == IF content.binary THEN "binary" ELSE "text"


\* A faulty variant of LineRange: the separator line is not counted.
LineRangeNoSeparator(cur, n) ==
    LET total_file_lines == 4 + 1 + n + 1 + 1
        end_line         == cur + total_file_lines - 1
    IN  << cur, end_line, end_line + 2 >>

\* Lines 404-411: (start_line, end_line, next current_line) of a file that
\* starts at line cur and has n content lines.
LineRange(cur, n) ==
    LET start_line       == cur
        total_file_lines == 4 + 1 + n + 1 + 1 + 1
        end_line         == cur + total_file_lines - 1
    IN  << start_line, end_line, end_line + 2 >>

\* The increasing sequence of a set of indices.
Ascending(idx) ==
    [k \in 1..Cardinality(idx) |->
        CHOOSE i \in idx : Cardinality({ j \in idx : j <= i }) = k]

\* build_directory_tree and generate_tree_lines: entries are the paths below
\* one directory, as sequences of components, in the order of their
\* insertion; a name whose entry has no further component is a file.
RECURSIVE TreeLines(_, _), TreeItems(_, _, _, _)
TreeLines(entries, prefix) ==
    LET firsts == Ascending({ i \in DOMAIN entries :
                      \A j \in 1..(i - 1) : entries[j][1] # entries[i][1] })
        names  == [k \in DOMAIN firsts |-> entries[firsts[k]][1]]
    IN  TreeItems(entries, prefix, names, 1)

TreeItems(entries, prefix, names, i) ==
    IF i > Len(names) THEN << >>
    ELSE LET name         == names[i]
             is_last_item == i = Len(names)
             connector    == IF is_last_item THEN "+-- " ELSE "|-- "
             extension    == IF is_last_item THEN "    " ELSE "|   "
             below        == Ascending({ j \in DOMAIN entries :
                                 entries[j][1] = name /\ Len(entries[j]) > 1 })
             subtree      == [k \in DOMAIN below |-> Tail(entries[below[k]])]
         IN  (IF subtree = << >>
              THEN << prefix \o << connector, "(file) " >> \o name >>
              ELSE << prefix \o << connector, "(dir) " >> \o name \o << "/" >> >>
                       \o TreeLines(subtree, prefix \o << extension >>))
             \o TreeItems(entries, prefix, names, i + 1)

\* Line 341: the tree lines of a set of files.
TreeOf(files) ==
    LET sorted == Sorted(files)
    IN  TreeLines([k \in DOMAIN sorted |-> Split(sorted[k], "/")], << >>)

\* Lines 323-332.
header_lines(files) ==
    << << "# Repository: ", "(repo_name)" >>,
       << >>,
       << "**Path:** '", "(repo_path)", "'" >>,
       << >>,
       << "**Total tracked files:** ", ToString(Cardinality(files)) >>,
       << >>,
       << "---" >>,
       << >> >>

\* Lines 335-342.
structure_lines(files) ==
    << << "## Directory Structure" >>, << >>, << "~~~" >>, << "(repo_name)", "/" >> >>
        \o TreeOf(files)
        \o << << "~~~" >>, << >>, << "---" >>, << >> >>

\* Lines 345-350.
toc_header ==
    << << "## Table of Contents" >>,
       << >>,
       << "| File | Lines | Type |" >>,
       << "|------|-------|------|" >> >>

\* Lines 365-371.
content_section_header ==
    << << >>, << "---" >>, << >>, << "## File Contents" >>, << >> >>

\* Lines 354-372.
pre_content_lines(files) ==
    Len(header_lines(files)) + Len(structure_lines(files)) + Len(toc_header)
        + Cardinality(files) + Len(content_section_header)

\* Lines 421-425: the row of a file in the table of contents.
TocEntry(fp, range) ==
    << "| ", (IF range.file_type = "text" THEN "(text icon)" ELSE "(binary icon)"), " [" >>
        \o fp \o << "](#" >> \o Anchor(fp)
        \o << ") | ", ToString(range.start), "-", ToString(range.end), " | ",
              range.file_type, " |" >>


\* A faulty variant of FileSection: the blank line after the separator is
\* not appended.
FileSectionNoTrailingBlank(fp, content) ==
    << << "### " >> \o fp,
       << >>,
       << "**Path:** '" >> \o fp \o << "'" >>,
       << >> >>
    \o (IF content.binary
        THEN << << "~~~" >>, << "[Binary file - content not displayed]" >> >>
        ELSE << << "~~~" >> \o Ext(fp), RStrip(content.text, { "\n" }) >>)
    \o << << "~~~" >>, << >>, << "---" >> >>

\* Lines 431-450: the elements appended to output_lines for one file; the
\* content is one element, whatever the number of its lines.
FileSection(fp, content) ==
    << << "### " >> \o fp,
       << >>,
       << "**Path:** '" >> \o fp \o << "'" >>,
       << >> >>
    \o (IF content.binary
        THEN << << "~~~" >>, << "[Binary file - content not displayed]" >> >>
        ELSE << << "~~~" >> \o Ext(fp), RStrip(content.text, { "\n" }) >>)
    \o << << "~~~" >>, << >>, << "---" >>, << >> >>

RECURSIVE TocEntries(_, _), FileSections(_, _)
TocEntries(sorted, ranges) ==
    IF sorted = << >> THEN << >>
    ELSE << TocEntry(sorted[1], ranges[sorted[1]]) >> \o TocEntries(Tail(sorted), ranges)

FileSections(sorted, contents) ==
    IF sorted = << >> THEN << >>
    ELSE FileSection(sorted[1], contents[sorted[1]]) \o FileSections(Tail(sorted), contents)

\* The first file, in sorted order, that is not yet a key of dict d.
NextFile(d) ==
    LET sorted == Sorted(tracked_files)
        i == CHOOSE i \in DOMAIN sorted :
                 sorted[i] \notin DOMAIN d /\ \A j \in 1..(i - 1) : sorted[j] \in DOMAIN d
    IN  sorted[i]

MaxContentLen == 2

\* What get_file_content can return: None for a binary file, or a text.
Contents ==
    { NoContent } \cup
    { [binary |-> FALSE, text |-> t] :
        t \in { << >> } \cup SeqsUpTo({ "x", "\n" }, MaxContentLen) }


\* A faulty variant of NoFilesToInclude: the run goes on with no file.
NoFilesToIncludeContinues ==
    /\ pc = "check_empty"
    /\ tracked_files = {}
    /\ pc' = "read_files"
    /\ UNCHANGED << matchVars, cfgVars, exit_code, envVars, tracked_files, docVars >>

\* Lines 304-306: nothing is selected.
NoFilesToInclude ==
    /\ pc = "check_empty"
    /\ tracked_files = {}
    /\ Exit1
    /\ UNCHANGED << matchVars, cfgVars, envVars, tracked_files, docVars >>

\* Lines 308-315.
HaveFiles ==
    /\ pc = "check_empty"
    /\ tracked_files # {}
    /\ pc' = "read_files"
    /\ UNCHANGED << matchVars, cfgVars, exit_code, envVars, tracked_files, docVars >>

\* Lines 316-319: the content of the next file, as the file system gives it.
ReadFile ==
    /\ pc = "read_files"
    /\ DOMAIN file_contents # tracked_files
    /\ \E content \in Contents :
           file_contents' = file_contents @@ (NextFile(file_contents) :> content)
    /\ UNCHANGED << matchVars, cfgVars, pc, exit_code, envVars, tracked_files,
                    file_line_ranges, current_line, output_lines, written, writes >>

\* Lines 323-377: the fixed blocks are laid out; the first file starts after them.
StartLineAccounting ==
    /\ pc = "read_files"
    /\ DOMAIN file_contents = tracked_files
    /\ current_line' = pre_content_lines(tracked_files) + 1
    /\ pc' = "calc_ranges"
    /\ UNCHANGED << matchVars, cfgVars, exit_code, envVars, tracked_files,
                    file_contents, file_line_ranges, output_lines, written, writes >>

\* Lines 379-411: the range of the next file.
CalcLineRange ==
    /\ pc = "calc_ranges"
    /\ DOMAIN file_line_ranges # tracked_files
    /\ LET fp      == NextFile(file_line_ranges)
           content == file_contents[fp]
           r       == LineRange(current_line, ContentLines(content))
       IN  /\ file_line_ranges' = file_line_ranges @@
                  (fp :> [start |-> r[1], end |-> r[2], file_type |-> FileType(content)])
           /\ current_line' = r[3]
    /\ UNCHANGED << matchVars, cfgVars, pc, exit_code, envVars, tracked_files,
                    file_contents, output_lines, written, writes >>

\* Lines 414-450: the document is assembled.
BuildDocument ==
    /\ pc = "calc_ranges"
    /\ DOMAIN file_line_ranges = tracked_files
    /\ output_lines' =
           header_lines(tracked_files) \o structure_lines(tracked_files) \o toc_header
               \o TocEntries(Sorted(tracked_files), file_line_ranges)
               \o content_section_header
               \o FileSections(Sorted(tracked_files), file_contents)
    /\ pc' = "write"
    /\ UNCHANGED << matchVars, cfgVars, exit_code, envVars, tracked_files,
                    file_contents, file_line_ranges, current_line, written, writes >>

\* Lines 453-458: the output file is written; main returns.
WriteOutput ==
    /\ pc = "write"
    /\ written' = Join(output_lines, << "\n" >>)
    /\ writes' = writes + 1
    /\ pc' = "done"
    /\ UNCHANGED << matchVars, cfgVars, exit_code, envVars, tracked_files,
                    file_contents, file_line_ranges, current_line, output_lines >>

-----------------------------------------------------------------------------
(* A run of main                                                            *)

cfg_exclude_md == << line_comment, line_exclude, line_star_md >>
cfg_exclude_src_include_md == << line_EXCLUDE, line_src_dir, line_Include, line_star_md >>

\* The rules files of the runs: none, an exclude rule, an exclude and an
\* include rule.
ConfigFiles == { << >>, cfg_exclude_md, cfg_exclude_src_include_md }

\* A run starts in main.  The root is a directory or not, with a .git
\* directory or not; git ls-files succeeds, fails at its first call, or at
\* its second call (made only when there are include rules); any set of
\* paths is tracked, .repotomdrc only when there is a rules file, which is
\* then on disk; the untracked paths matter only to the include rules.
Init ==
    /\ isdir \in BOOLEAN
    /\ hasgit \in BOOLEAN
    /\ ~isdir => ~hasgit
    /\ git_fail \in 0..2
    /\ repo_tracked \in SUBSET RepoPaths
    /\ cfg_lines \in ConfigFiles
    /\ cfg_present = (cfg_lines # << >>)
    /\ CONFIG_FILENAME \in repo_tracked => cfg_present
    /\ \E untracked \in { {}, RepoPaths \ repo_tracked } :
           /\ all_files = (repo_tracked \ { CONFIG_FILENAME }) \cup untracked
                               \cup (IF cfg_present THEN { CONFIG_FILENAME } ELSE {})
           /\ cfg_lines # cfg_exclude_src_include_md => untracked = {}
    /\ git_fail = 2 => cfg_lines = cfg_exclude_src_include_md
    /\ ~(isdir /\ hasgit) =>
           git_fail = 0 /\ repo_tracked = {} /\ cfg_lines = << >>
    /\ cfg_pos = 0
    /\ current_section = "None"
    /\ exclude_patterns = << >> /\ include_patterns = << >>
    /\ tracked_files = {}
    /\ pc = "main"
    /\ exit_code = 0
    /\ IdleMatch /\ IdleDoc

Next ==
    \/ MainNotDirectory \/ MainNotGitRepo \/ MainCreateMarkdown
    \/ GetTrackedFilesFails \/ GetTrackedFiles
    \/ ConfigAbsent \/ ReadConfigLine \/ ConfigDone
    \/ ApplyExclusions \/ ApplyInclusionsGitFails \/ ApplyInclusions
    \/ DiscardConfig
    \/ NoFilesToInclude \/ HaveFiles
    \/ ReadFile \/ StartLineAccounting \/ CalcLineRange \/ BuildDocument
    \/ WriteOutput

Spec == Init /\ [][Next]_vars

-----------------------------------------------------------------------------
(* Properties of the line accounting                                        *)

\* The written file read back: its lines, counted from 1.
WrittenLines == Split(written, "\n")

TitleLine(f) == << "### " >> \o f
SeparatorLine == << "---" >>
FenceClose == << "~~~" >>
FenceOpen(f) ==
    IF file_contents[f].binary THEN << "~~~" >> ELSE << "~~~" >> \o Ext(f)

IsTitle(l) == Len(l) > 0 /\ l[1] = "### "

\* The number of content lines of a file: 1 for a binary file, else one more
\* than the newlines of the text without the newlines that end it.
LineCount(f) ==
    IF file_contents[f].binary THEN 1
    ELSE LET t    == file_contents[f].text
             body == { i \in DOMAIN t : \E j \in i..Len(t) : t[j] # "\n" }
         IN  1 + Cardinality({ i \in body : t[i] = "\n" })

\* The files whose range is computed, in sorted order.
Ranged == Sorted(DOMAIN file_line_ranges)

\* The directories and files of the tree.
TreeNodes ==
    tracked_files \cup
    UNION { { SubSeq(f, 1, i - 1) : i \in { j \in DOMAIN f : f[j] = "/" } } :
              f \in tracked_files }

\* The row of file f in the table of contents of the written file, and the
\* pair of line numbers printed in it.
TocRowOf(lines, f) ==
    CHOOSE l \in { lines[i] : i \in DOMAIN lines } :
        /\ Len(l) > Len(f) + 10
        /\ l[1] = "| "
        /\ SubSeq(l, 4, 3 + Len(f)) = f
        /\ l[4 + Len(f)] = "](#"

ParseInt(s, max) == CHOOSE n \in 0..max : ToString(n) = s

PrintedStart(lines, f) ==
    LET row == TocRowOf(lines, f) IN ParseInt(row[Len(row) - 5], 2 * Len(lines))

PrintedEnd(lines, f) ==
    LET row == TocRowOf(lines, f) IN ParseInt(row[Len(row) - 3], 2 * Len(lines))

\* C1 as stated: the printed pair bounds the fence-to-fence block: line
\* start is the fence-open line and line end is the fence-close line.
C1_AsStated ==
    pc = "done" =>
        LET lines == WrittenLines
        IN  \A f \in tracked_files :
                /\ PrintedStart(lines, f) \in DOMAIN lines
                /\ PrintedEnd(lines, f) \in DOMAIN lines
                /\ lines[PrintedStart(lines, f)] = FenceOpen(f)
                /\ lines[PrintedEnd(lines, f)] = FenceClose

\* C1 (amended): for every file of the output, the (start,end) pair printed
\* in its table-of-contents row bounds the file's rendered section, from its
\* title line to its separator line: line start of the written output is the
\* file's `### <path>` line and line end is its `---` line; the fence-open
\* line is line start + 4, the fence-close line is line end - 2, and the
\* file's content lines are the lines between the two.
C1_TocRowBoundsSection ==
    pc = "done" =>
        LET lines == WrittenLines
        IN  \A f \in tracked_files :
                LET s == PrintedStart(lines, f)
                    e == PrintedEnd(lines, f)
                IN  /\ s \in DOMAIN lines /\ e \in DOMAIN lines
                    /\ lines[s] = TitleLine(f)
                    /\ lines[e] = SeparatorLine
                    /\ lines[s + 4] = FenceOpen(f)
                    /\ lines[e - 2] = FenceClose
                    /\ (e - 2) - (s + 4) - 1 = LineCount(f)
                    /\ \A i \in (s + 1)..e : ~IsTitle(lines[i])

\* A binary file, an empty text file and a text file of two lines are in
\* one written output.
C1_Witness ==
    /\ pc = "done"
    /\ Cardinality(tracked_files) = 3
    /\ \E f, g, h \in tracked_files :
           /\ file_contents[f].binary
           /\ ~file_contents[g].binary /\ file_contents[g].text = << >>
           /\ ~file_contents[h].binary /\ LineCount(h) = 2

\* C2 as stated: end = start + (4 + 1 + lineCount + 1 + 3) - 1 and the next
\* file starts at end + 1.
C2_AsStated ==
    pc \in { "calc_ranges", "write", "done" } =>
        /\ \A f \in DOMAIN file_line_ranges :
               file_line_ranges[f].end
                   = file_line_ranges[f].start + (4 + 1 + LineCount(f) + 1 + 3) - 1
        /\ \A i \in 1..(Len(Ranged) - 1) :
               file_line_ranges[Ranged[i + 1]].start
                   = file_line_ranges[Ranged[i]].end + 1

\* C2 (amended): in the line-accounting pass, for every file
\* end = start + (4 + 1 + lineCount + 1 + 1 + 1) - 1 (the range ends at the
\* separator line), and for consecutive files in sorted order the next start
\* is end + 2: the ranges are non-overlapping and strictly increasing, with
\* exactly one line, the blank line after the separator, between them.
C2_LineAccounting ==
    pc \in { "calc_ranges", "write", "done" } =>
        /\ \A f \in DOMAIN file_line_ranges :
               /\ file_line_ranges[f].end
                      = file_line_ranges[f].start
                            + (4 + 1 + LineCount(f) + 1 + 1 + 1) - 1
               /\ file_line_ranges[f].start < file_line_ranges[f].end
        /\ \A i \in 1..(Len(Ranged) - 1) :
               file_line_ranges[Ranged[i + 1]].start
                   = file_line_ranges[Ranged[i]].end + 2
        /\ \A f, g \in DOMAIN file_line_ranges :
               StrLess(f, g) => file_line_ranges[f].end < file_line_ranges[g].start
        /\ Ranged # << >> =>
               current_line = file_line_ranges[Ranged[Len(Ranged)]].end + 2

\* The ranges of a binary file and of a text file of two lines are computed.
C2_Witness ==
    /\ pc = "calc_ranges"
    /\ Len(Ranged) >= 2
    /\ \E f, g \in DOMAIN file_line_ranges :
           file_contents[f].binary /\ ~file_contents[g].binary /\ LineCount(g) = 2

\* C9: the computed ranges agree with the written text: line start of each
\* file is its `### <path>` title line, line end is its `---` separator
\* line, the first start is 1 + the lines of the header (8), the tree block
\* (8 and one per directory and file), the TOC header (4), the TOC rows (one
\* per file) and the content-section header (5), and for consecutive files
\* in sorted order the next start is end + 2.
C9_RangesAgreeWithText ==
    pc = "done" =>
        LET lines  == WrittenLines
            sorted == Sorted(tracked_files)
        IN  /\ \A f \in tracked_files :
                   LET s == file_line_ranges[f].start
                       e == file_line_ranges[f].end
                   IN  /\ s \in DOMAIN lines /\ e \in DOMAIN lines
                       /\ lines[s] = TitleLine(f)
                       /\ lines[e] = SeparatorLine
                       /\ \A i \in (s + 1)..e : ~IsTitle(lines[i])
            /\ file_line_ranges[sorted[1]].start
                   = 1 + 8 + (8 + Cardinality(TreeNodes)) + 4
                       + Cardinality(tracked_files) + 5
            /\ \A i \in 1..(file_line_ranges[sorted[1]].start - 1) :
                   ~IsTitle(lines[i])
            /\ \A i \in 1..(Len(sorted) - 1) :
                   file_line_ranges[sorted[i + 1]].start
                       = file_line_ranges[sorted[i]].end + 2

\* Two files below directories and one at the root, of different kinds and
\* line counts, are written.
C9_Witness ==
    /\ pc = "done"
    /\ tracked_files = { path_a_md, path_docs_a_md, path_src_x_js }
    /\ file_contents[path_a_md].binary
    /\ LineCount(path_docs_a_md) = 2
    /\ LineCount(path_src_x_js) = 1

-----------------------------------------------------------------------------
(* Properties of a run of main                                              *)

AfterSelection ==
    { "read_files", "calc_ranges", "write", "done" }

AfterInclusions == { "discard_config", "check_empty" } \cup AfterSelection

\* C5: each fatal condition (the root is not a directory, it has no .git
\* directory, the listing of tracked files fails, the final selection is
\* empty) ends the run with exit code 1 and the output file never written;
\* the output file is written at most once, only after the whole line
\* sequence (header, tree, TOC rows with ranges, every file section) is
\* assembled.
C5_FatalWritesNothing ==
    /\ writes \in { 0, 1 }
    /\ pc = "exit" =>
           /\ exit_code = 1
           /\ writes = 0 /\ written = << >> /\ output_lines = << >>
    /\ pc \notin { "exit", "done" } => exit_code = 0
    /\ pc = "main" =>
           ENABLED (MainNotDirectory \/ MainNotGitRepo \/ MainCreateMarkdown)
    /\ pc = "get_tracked_files" => ENABLED (GetTrackedFilesFails \/ GetTrackedFiles)
    /\ pc = "apply_inclusions" => ENABLED (ApplyInclusionsGitFails \/ ApplyInclusions)
    /\ pc = "check_empty" => ENABLED (NoFilesToInclude \/ HaveFiles)
    /\ ~isdir => pc \in { "main", "exit" }
    /\ ~hasgit => pc \in { "main", "exit" }
    /\ git_fail = 1 => pc \in { "main", "get_tracked_files", "exit" }
    /\ (git_fail = 2 /\ include_patterns # << >>) => pc \notin AfterInclusions
    /\ tracked_files = {} => pc \notin AfterSelection
    /\ writes = 1 =>
           /\ pc = "done" /\ exit_code = 0
           /\ written = Join(output_lines, << "\n" >>)
           /\ DOMAIN file_line_ranges = tracked_files
           /\ LET lines   == WrittenLines
                  lineSet == { lines[i] : i \in DOMAIN lines }
                  last    == CHOOSE f \in tracked_files :
                                 \A g \in tracked_files \ { f } : StrLess(g, f)
              IN  /\ lines[1] = header_lines(tracked_files)[1]
                  /\ \A f \in tracked_files :
                         /\ TocEntry(f, file_line_ranges[f]) \in lineSet
                         /\ TitleLine(f) \in lineSet
                  /\ Len(lines) = file_line_ranges[last].end + 1

\* Tracked files exist, the rules exclude them all, and the run has ended
\* with exit code 1 and no output.
C5_Witness ==
    /\ pc = "exit" /\ exit_code = 1
    /\ isdir /\ hasgit /\ git_fail = 0
    /\ repo_tracked # {} /\ tracked_files = {}
    /\ cfg_present /\ cfg_pos = Len(cfg_lines)
    /\ writes = 0

=============================================================================
